---- MODULE Spec2Model ----
(***************************************************************************)
(* The research pipeline of samyak1729/deep-research.                      *)
(*                                                                         *)
(*   Spec       src/main.py: the streaming server (generate_plan and the   *)
(*              async generator stream_research).  One run of the          *)
(*              generator; an action is the code between two suspension    *)
(*              points (yield) of the generator.                           *)
(*   SpecRetry  src/deep-research-from-scratch/main.py, lines 112-208: the *)
(*              script whose generate_plan carries the tenacity retry      *)
(*              decorator, driven by test_stream_research.                 *)
(*   SpecWire   the run of Spec with report chunks that span lines, and    *)
(*              the frames as the text the event-stream client of          *)
(*              src/frontend.py reads.                                     *)
(*   SpecLoop   two requests served by the one event loop of src/main.py:  *)
(*              which run holds the thread, and the credentials of the     *)
(*              outbound calls.                                            *)
(*                                                                         *)
(* Python dicts are TLA+ records (DOMAIN = the keys present), Python lists *)
(* are sequences, Python exceptions are the names of their classes.        *)
(***************************************************************************)
EXTENDS Integers, Sequences, FiniteSets, TLC

VARIABLES
    query,            \* the topic of the run (parameter `query`)
    pc,               \* Planning, Searching, Synthesizing, Done (the run
                      \* returned), Failed (an exception left the run)
    exc,              \* class of the exception that left the run, or "None"
    failedIn,         \* stage the run was in when the exception left it
    plan,             \* local `plan` (Unbound before generate_plan returns)
    attempts,         \* log of the planning model calls: their outcomes
    slept,            \* time units slept between planning attempts
    i,                \* position of `for subtask in plan["subtasks"]`
    searches,         \* log of the tavily.search calls: query and outcome
    search_results,   \* local list `search_results`
    search_summary,   \* local `search_summary` (the joined text)
    stream,           \* log of what the synthesis stream produced
    frames,           \* what the run has emitted so far, in order
    runs,             \* SpecLoop: where each request's generator stands
    loop,             \* SpecLoop: the run the event loop's thread is
                      \* executing, or "idle"
    calls             \* SpecLoop: the outbound calls made so far

\* the variables of the event loop (SpecLoop); the specifications of one
\* run leave them as they start
loopVars == <<runs, loop, calls>>

\* the variables of one run
runVars == <<query, pc, exc, failedIn, plan, attempts, slept, i, searches,
             search_results, search_summary, stream, frames>>

vars == <<query, pc, exc, failedIn, plan, attempts, slept, i, searches,
          search_results, search_summary, stream, frames, runs, loop, calls>>

----------------------------------------------------------------------------
(* Bounds of the model *)

\* sub-tasks in a plan returned by the planning model
MaxSubtasks == 2
\* chunks the synthesis stream produces before it ends
MaxChunks == 4

(* Program constants *)

\* stop_after_attempt(3)
MaxAttempts == 3
\* wait_fixed(20)
WaitFixed == 20

Topics == {"X", "Y"}

Unbound == [unbound |-> TRUE]

----------------------------------------------------------------------------
(* Python helpers *)

\* `key in d` for a parsed JSON value d; d[key] raises when this is false
\* (KeyError for a dict, TypeError for a list)
HasKey(d, key) == key \in DOMAIN d

\* the exception d[key] raises on a parsed JSON value that has no such key
SubscriptError(d) == IF d = <<>> THEN "TypeError" ELSE "KeyError"

\* isinstance(e, cls) over the exception classes the code names
IsInstance(e, cls) ==
    \/ e = cls
    \/ cls = "Exception"
    \/ cls = "GoogleAPIError" /\ e = "ResourceExhausted"
    \/ cls = "ValueError" /\ e = "JSONDecodeError"

RECURSIVE Join(_, _)
\* sep.join(strs)
Join(sep, strs) ==
    IF strs = <<>> THEN ""
    ELSE IF Len(strs) = 1 THEN strs[1]
    ELSE strs[1] \o sep \o Join(sep, Tail(strs))

----------------------------------------------------------------------------
(* Results of operations that may raise *)

Ok(v) == [raised |-> "None", value |-> v]
Raise(e) == [raised |-> e, value |-> Unbound]

----------------------------------------------------------------------------
(* The planning model (thinking_model.generate_content) *)

\* JSON objects the planning model may write as one sub-task
SubtaskDicts ==
    { [subtask |-> "s1", search_query |-> "q1"],
      [subtask |-> "s2", search_query |-> "q2"],
      [subtask |-> "s1", search_query |-> ""],
      [subtask |-> "s1"],
      [search_query |-> "q1"] }

SeqsUpTo(S, n) == UNION { [1..k -> S] : k \in 0..n }

\* JSON values the planning model may write: a plan object with a list of
\* sub-tasks, an object without "subtasks", and a JSON array
PlanValues ==
    { [plan |-> "p", subtasks |-> st] : st \in SeqsUpTo(SubtaskDicts, MaxSubtasks) }
        \cup { [plan |-> "p"], <<>> }

\* responses of the planning model: blocked (reading .text raises
\* ValueError), or a text that is a JSON document or is not
Responses ==
    { [blocked |-> TRUE] }
        \cup { [blocked |-> FALSE, text |-> [garbage |-> g]] : g \in {"", "Here is the plan"} }
        \cup { [blocked |-> FALSE, text |-> [json |-> v]] : v \in PlanValues }

\* what one call of thinking_model.generate_content does
ModelCallOutcomes ==
    { Raise(e) : e \in {"ResourceExhausted", "GoogleAPIError", "RuntimeError"} }
        \cup { Ok(r) : r \in Responses }

\* planning_response.text
ResponseText(response) ==
    IF response.blocked THEN Raise("ValueError") ELSE Ok(response.text)

\* json.loads(text)
json_loads(text) ==
    IF HasKey(text, "json") THEN Ok(text.json) ELSE Raise("JSONDecodeError")

\* DefaultPlan with the single default sub-task of the earlier variants
DefaultPlanOneSubtask(q) ==
    [plan |-> "Default plan for " \o q,
     subtasks |-> << [subtask |-> "Default subtask", search_query |-> q] >>]

\* the dict returned by the except (json.JSONDecodeError, ValueError) branch
DefaultPlan(q) ==
    [plan |-> "Default plan for " \o q,
     subtasks |-> << [subtask |-> "Default subtask 1", search_query |-> q],
                     [subtask |-> "Default subtask 2", search_query |-> q \o " overview"] >>]

\* the body of the try block of generate_plan, given what the model call did
PlanTryBody(out) ==
    IF out.raised # "None" THEN out
    ELSE LET t == ResponseText(out.value)
         IN  IF t.raised # "None" THEN t ELSE json_loads(t.value)

\* generate_plan whose second except clause names json.JSONDecodeError only
generate_planJSONErrorOnly(q, out) ==
    LET r == PlanTryBody(out)
    IN  IF r.raised = "None" THEN r
        ELSE IF IsInstance(r.raised, "GoogleAPIError") THEN r
        ELSE IF IsInstance(r.raised, "JSONDecodeError") THEN Ok(DefaultPlan(q))
        ELSE r

\* generate_plan(query), given what the model call did
generate_plan(q, out) ==
    LET r == PlanTryBody(out)
    IN  IF r.raised = "None" THEN r
        ELSE IF IsInstance(r.raised, "GoogleAPIError") THEN r
        ELSE IF IsInstance(r.raised, "JSONDecodeError") \/ IsInstance(r.raised, "ValueError")
             THEN Ok(DefaultPlan(q))
        ELSE r

----------------------------------------------------------------------------
(* Frames: one per yield of stream_research *)

\* f"data: Planning: {json.dumps(plan, indent=2)}\n\n"
PlanFrame(p) == [event |-> "Planning", plan |-> p]
\* f"data: Search Results for '{search_query}': {json.dumps(results['results'], indent=2)}\n\n"
SearchResultsFrame(q, rs) == [event |-> "SearchResults", search_query |-> q, results |-> rs]
\* f"data: Error searching '{search_query}': {str(e)}\n\n"
SearchErrorFrame(q, e) == [event |-> "ErrorSearching", search_query |-> q, error |-> e]
\* f"data: {chunk.text}\n\n"
ChunkFrame(t) == [event |-> "ReportChunk", text |-> t]
\* f"data: Quota exceeded during report generation: {str(e)}\n\n"
QuotaFrame(e) == [event |-> "QuotaExceeded", error |-> e]
\* f"data: API error in report generation: {str(e)}\n\n"
APIErrorFrame(e) == [event |-> "APIError", error |-> e]

----------------------------------------------------------------------------
(* The run of stream_research (src/main.py) *)

Init ==
    /\ query \in Topics
    /\ pc = "Planning"
    /\ exc = "None"
    /\ failedIn = "None"
    /\ plan = Unbound
    /\ attempts = <<>>
    /\ slept = 0
    /\ i = 1
    /\ searches = <<>>
    /\ search_results = <<>>
    /\ search_summary = ""
    /\ stream = <<>>
    /\ frames = <<>>
    /\ runs = <<>>
    /\ loop = "idle"
    /\ calls = {}

\* Yield that puts the frame before the frames already sent
YieldFirst(f) == frames' = <<f>> \o frames

\* Yield that retracts the frames already sent
YieldReplacing(f) == frames' = <<f>>

\* yield f: the frame is the next one of the stream
Yield(f) == frames' = Append(frames, f)

\* an exception leaves the generator
Fails(e) ==
    /\ pc' = "Failed"
    /\ exc' = e
    /\ failedIn' = pc

\* plan = await generate_plan(query); yield the plan frame
Planning ==
    /\ pc = "Planning"
    /\ \E out \in ModelCallOutcomes :
         LET r == generate_plan(query, out)
         IN  /\ attempts' = Append(attempts, out)
             /\ IF r.raised # "None"
                THEN /\ Fails(r.raised)
                     /\ UNCHANGED <<plan, frames>>
                ELSE /\ plan' = r.value
                     /\ Yield(PlanFrame(r.value))
                     /\ pc' = "Searching"
                     /\ UNCHANGED <<exc, failedIn>>
    /\ UNCHANGED <<query, slept, i, searches, search_results, search_summary, stream>>
    /\ UNCHANGED loopVars


----------------------------------------------------------------------------
(* The search provider (tavily.search) *)

R1 == [title |-> "t1", content |-> "c1", url |-> "u1"]
R2 == [title |-> "t2", content |-> "c2"]
R3 == [title |-> "t3", content |-> "c3", url |-> "u3"]

\* result lists of a search that succeeds
ResultLists == { <<>>, <<R1, R2, R3>> }

\* what one call of tavily.search does: it raises, or returns a response
\* dict (which carries "results", or does not)
SearchOutcomes ==
    { [raised |-> "Exception", msg |-> "timeout"] }
        \cup { [raised |-> "None", value |-> [results |-> rs]] : rs \in ResultLists }
        \cup { [raised |-> "None", value |-> [detail |-> "error"]] }

\* the body of the try block of the search loop, given what the search did:
\* the exception it raises, or the item it appends to search_results and
\* the frame it yields
SearchTryBody(subtask, search_query, out) ==
    IF out.raised # "None" THEN [raised |-> out.raised, msg |-> out.msg]
    ELSE IF ~HasKey(subtask, "subtask") THEN [raised |-> "KeyError", msg |-> "'subtask'"]
    ELSE IF ~HasKey(out.value, "results") THEN [raised |-> "KeyError", msg |-> "'results'"]
    ELSE [raised |-> "None",
          items |-> << [search_query |-> search_query, subtask |-> subtask.subtask,
                        results |-> out.value.results] >>,
          frame |-> SearchResultsFrame(search_query, out.value.results)]

\* SearchExceptBody that yields the frame and appends no item
SearchExceptBodyNoAppend(subtask, search_query, e) ==
    [raised |-> "None", items |-> <<>>, frame |-> SearchErrorFrame(search_query, e.msg)]

\* the except Exception handler of the search loop, for the exception e:
\* the exception it raises itself, or the item it appends to
\* search_results and the frame it yields
SearchExceptBody(subtask, search_query, e) ==
    IF ~HasKey(subtask, "subtask") THEN [raised |-> "KeyError", msg |-> "'subtask'"]
    ELSE [raised |-> "None",
          items |-> << [search_query |-> search_query, subtask |-> subtask.subtask,
                        results |-> <<>>] >>,
          frame |-> SearchErrorFrame(search_query, e.msg)]

\* SearchIteration without the except clause
SearchIterationNoExcept(subtask, search_query, out) ==
    SearchTryBody(subtask, search_query, out)

\* one iteration of the loop body after search_query is read
SearchIteration(subtask, search_query, out) ==
    LET t == SearchTryBody(subtask, search_query, out)
    IN  IF t.raised = "None" THEN t
        ELSE IF IsInstance(t.raised, "Exception")
             THEN SearchExceptBody(subtask, search_query, t)
        ELSE t

\* SearchCall that searches for the topic of the run
SearchCallTopic(search_query, out) == [query |-> query, out |-> out]

\* tavily.search(query=search_query, max_results=5): the call as the search
\* provider sees it, with what it does
SearchCall(search_query, out) == [query |-> search_query, out |-> out]

\* for subtask in plan["subtasks"]: plan has no "subtasks" to iterate
SearchingRaises ==
    /\ pc = "Searching"
    /\ ~HasKey(plan, "subtasks")
    /\ Fails(SubscriptError(plan))
    /\ UNCHANGED <<query, plan, attempts, slept, i, searches, search_results,
                   search_summary, stream, frames>>
    /\ UNCHANGED loopVars

\* one iteration of the search loop, up to its yield
SearchSubtask ==
    /\ pc = "Searching"
    /\ HasKey(plan, "subtasks")
    /\ i <= Len(plan.subtasks)
    /\ LET subtask == plan.subtasks[i]
       IN  IF ~HasKey(subtask, "search_query")
           THEN /\ Fails(SubscriptError(subtask))
                /\ UNCHANGED <<i, searches, search_results, frames>>
           ELSE \E out \in SearchOutcomes :
                  LET r == SearchIteration(subtask, subtask.search_query, out)
                  IN  /\ searches' = Append(searches, SearchCall(subtask.search_query, out))
                      /\ IF r.raised # "None"
                         THEN /\ Fails(r.raised)
                              /\ UNCHANGED <<i, search_results, frames>>
                         ELSE /\ search_results' = search_results \o r.items
                              /\ Yield(r.frame)
                              /\ i' = i + 1
                              /\ UNCHANGED <<pc, exc, failedIn>>
    /\ UNCHANGED <<query, plan, attempts, slept, search_summary, stream>>
    /\ UNCHANGED loopVars

----------------------------------------------------------------------------
(* The report prompt *)

\* f"- {result['title']}: {result['content']} [URL: {result.get('url', 'Not Available')}]"
ResultLine(result) ==
    "- " \o result.title \o ": " \o result.content \o " [URL: "
        \o (IF HasKey(result, "url") THEN result.url ELSE "Not Available") \o "]"

\* the text of one item of search_results in the summary
SummaryItem(item) ==
    "Subtask: " \o item.subtask \o "\nSearch Query: " \o item.search_query
        \o "\nResults:\n"
        \o (IF item.results # <<>>
            THEN Join("\n", [k \in 1..Len(item.results) |-> ResultLine(item.results[k])])
            ELSE "No results found.")

\* the list the summary is joined from
SummaryItems(items) == [k \in 1..Len(items) |-> SummaryItem(items[k])]

\* the search loop is over: search_summary and report_prompt are built
BuildReportPrompt ==
    /\ pc = "Searching"
    /\ HasKey(plan, "subtasks")
    /\ i > Len(plan.subtasks)
    /\ search_summary' = Join("\n", SummaryItems(search_results))
    /\ pc' = "Synthesizing"
    /\ UNCHANGED <<query, exc, failedIn, plan, attempts, slept, i, searches,
                   search_results, stream, frames>>
    /\ UNCHANGED loopVars

----------------------------------------------------------------------------
(* The report stream (task_model.generate_content(report_prompt, stream=True)) *)

\* chunk.text of the chunks the stream may produce.  A text is a sequence
\* of tokens: "\n" is a line break and every other token is a piece of
\* text without a line break.
ChunkTexts == { <<"a">>, <<"b">> }

\* what the stream does next: a chunk, a chunk whose .text raises
\* ValueError (a blocked candidate), an exception, or its end
StreamEvents ==
    { [kind |-> "chunk", text |-> t] : t \in ChunkTexts }
        \cup { [kind |-> "blocked_chunk"] }
        \cup { [kind |-> "raise", exc |-> e] :
                 e \in {"ResourceExhausted", "GoogleAPIError", "RuntimeError"} }
        \cup { [kind |-> "end"] }

\* chunks the stream has produced
Produced(log) == SelectSeq(log, LAMBDA ev : ev.kind = "chunk")

\* the exception the body of stream_report raises on the event, or "None"
StreamRaises(ev) ==
    IF ev.kind = "raise" THEN ev.exc
    ELSE IF ev.kind = "blocked_chunk" THEN "ValueError"
    ELSE "None"

\* ReportExcept without the ResourceExhausted clause
ReportExceptNoQuotaClause(e) ==
    IF IsInstance(e, "GoogleAPIError") THEN <<APIErrorFrame(e)>> ELSE <<>>

\* the except clauses around the report stream: the frame the handler of
\* exception e yields, or no frame when no clause catches e
ReportExcept(e) ==
    IF IsInstance(e, "ResourceExhausted") THEN <<QuotaFrame(e)>>
    ELSE IF IsInstance(e, "GoogleAPIError") THEN <<APIErrorFrame(e)>>
    ELSE <<>>

\* StreamReportOf that collects the chunks and yields them when the stream
\* has ended
StreamReportCollecting(events) ==
    /\ pc = "Synthesizing"
    /\ \E ev \in events :
         /\ ev.kind = "chunk" => Len(Produced(stream)) < MaxChunks
         /\ stream' = Append(stream, ev)
         /\ IF ev.kind = "chunk"
            THEN UNCHANGED <<pc, exc, failedIn, frames>>
            ELSE IF ev.kind = "end"
            THEN /\ frames' = frames \o [k \in 1..Len(Produced(stream)) |->
                                            ChunkFrame(Produced(stream)[k].text)]
                 /\ pc' = "Done"
                 /\ UNCHANGED <<exc, failedIn>>
            ELSE IF ReportExcept(StreamRaises(ev)) # <<>>
            THEN /\ Yield(ReportExcept(StreamRaises(ev))[1])
                 /\ pc' = "Done"
                 /\ UNCHANGED <<exc, failedIn>>
            ELSE /\ Fails(StreamRaises(ev))
                 /\ UNCHANGED frames
    /\ UNCHANGED <<query, plan, attempts, slept, i, searches, search_results,
                   search_summary>>
    /\ UNCHANGED loopVars

\* one step of the report stream, up to the next yield or the end of the
\* run, for a stream that does one of `events` next
StreamReportOf(events) ==
    /\ pc = "Synthesizing"
    /\ \E ev \in events :
         /\ ev.kind = "chunk" => Len(Produced(stream)) < MaxChunks
         /\ stream' = Append(stream, ev)
         /\ IF ev.kind = "chunk"
            THEN /\ Yield(ChunkFrame(ev.text))
                 /\ UNCHANGED <<pc, exc, failedIn>>
            ELSE IF ev.kind = "end"
            THEN /\ pc' = "Done"
                 /\ UNCHANGED <<exc, failedIn, frames>>
            ELSE IF ReportExcept(StreamRaises(ev)) # <<>>
            THEN /\ Yield(ReportExcept(StreamRaises(ev))[1])
                 /\ pc' = "Done"
                 /\ UNCHANGED <<exc, failedIn>>
            ELSE /\ Fails(StreamRaises(ev))
                 /\ UNCHANGED frames
    /\ UNCHANGED <<query, plan, attempts, slept, i, searches, search_results,
                   search_summary>>
    /\ UNCHANGED loopVars

\* async for chunk in stream_report(): yield chunk
StreamReport == StreamReportOf(StreamEvents)

Next ==
    \/ Planning
    \/ SearchingRaises
    \/ SearchSubtask
    \/ BuildReportPrompt
    \/ StreamReport

Spec == Init /\ [][Next]_vars

\* The server's run when every outbound call returns or fails and the
\* response is consumed: the generator is resumed after each yield and
\* each call it makes returns or raises.
SpecFair == Spec /\ WF_vars(Next)


----------------------------------------------------------------------------
(* The script with the retrying generate_plan                              *)
(* (src/deep-research-from-scratch/main.py, lines 112-208).  What it       *)
(* prints is recorded in frames: the same payloads as the server's frames, *)
(* without the "data: " marker.                                            *)

\* print("Starting research for:", query)
StartingLine(q) == [event |-> "Starting", query |-> q]
\* print(f"JSON parsing error: {e}")
ParsingErrorLine(e) == [event |-> "JSONParsingError", error |-> e]

\* the plan of the except (json.JSONDecodeError, ValueError) branch of
\* test_stream_research
ScriptDefaultPlan(q) ==
    [plan |-> "Default plan for " \o q,
     subtasks |-> << [subtask |-> "Default subtask", search_query |-> q] >>]

\* RetryIf that retries on every API error
RetryIfAnyAPIError(e) == IsInstance(e, "GoogleAPIError")

\* retry=retry_if_exception_type(google.api_core.exceptions.ResourceExhausted)
RetryIf(e) == IsInstance(e, "ResourceExhausted")

\* StopAfterAttempt that never stops
StopAfterAttemptNever(n) == FALSE

\* StopAfterAttempt that stops one attempt late
StopAfterAttemptLate(n) == n > MaxAttempts

\* StopAfterAttempt that stops one attempt early
StopAfterAttemptEarly(n) == n >= MaxAttempts - 1

\* stop=stop_after_attempt(3), asked after attempt number n has failed
StopAfterAttempt(n) == n >= MaxAttempts

\* wait=wait_fixed(20)
WaitTime == WaitFixed

\* the body of the decorated generate_plan: the model call and json.loads
ScriptPlanBody(out) ==
    IF out.raised # "None" THEN out
    ELSE LET t == ResponseText(out.value)
         IN  IF t.raised # "None" THEN t ELSE json_loads(t.value)

InitRetry ==
    /\ query \in Topics
    /\ pc = "Planning"
    /\ exc = "None"
    /\ failedIn = "None"
    /\ plan = Unbound
    /\ attempts = <<>>
    /\ slept = 0
    /\ i = 1
    /\ searches = <<>>
    /\ search_results = <<>>
    /\ search_summary = ""
    /\ stream = <<>>
    /\ frames = << StartingLine(query) >>
    /\ runs = <<>>
    /\ loop = "idle"
    /\ calls = {}

\* one attempt of the decorated generate_plan: it returns to
\* test_stream_research (which prints the plan), is retried after the wait,
\* or raises to test_stream_research (which substitutes its default plan
\* for a JSONDecodeError or ValueError)
ScriptPlanAttempt ==
    /\ pc = "Planning"
    /\ \E out \in ModelCallOutcomes :
         LET r == ScriptPlanBody(out)
             n == Len(attempts) + 1
         IN  /\ attempts' = Append(attempts, out)
             /\ IF r.raised = "None"
                THEN /\ plan' = r.value
                     /\ frames' = Append(frames, PlanFrame(r.value))
                     /\ pc' = "Searching"
                     /\ UNCHANGED <<exc, failedIn, slept>>
                ELSE IF RetryIf(r.raised)
                THEN IF StopAfterAttempt(n)
                     THEN /\ Fails("RetryError")
                          /\ UNCHANGED <<plan, frames, slept>>
                     ELSE /\ slept' = slept + WaitTime
                          /\ UNCHANGED <<pc, exc, failedIn, plan, frames>>
                ELSE IF IsInstance(r.raised, "JSONDecodeError") \/ IsInstance(r.raised, "ValueError")
                THEN /\ plan' = ScriptDefaultPlan(query)
                     /\ frames' = frames \o << ParsingErrorLine(r.raised),
                                               PlanFrame(ScriptDefaultPlan(query)) >>
                     /\ pc' = "Searching"
                     /\ UNCHANGED <<exc, failedIn, slept>>
                ELSE /\ Fails(r.raised)
                     /\ UNCHANGED <<plan, frames, slept>>
    /\ UNCHANGED <<query, i, searches, search_results, search_summary, stream>>
    /\ UNCHANGED loopVars

\* one iteration of the script's search loop: the except handler only
\* prints, it appends no item
ScriptSearchIteration(subtask, search_query, out) ==
    LET t == SearchTryBody(subtask, search_query, out)
    IN  IF t.raised = "None" THEN [items |-> t.items, frame |-> t.frame]
        ELSE [items |-> <<>>, frame |-> SearchErrorFrame(search_query, t.msg)]

ScriptSearchingRaises ==
    /\ pc = "Searching"
    /\ ~HasKey(plan, "subtasks")
    /\ Fails(SubscriptError(plan))
    /\ UNCHANGED <<query, plan, attempts, slept, i, searches, search_results,
                   search_summary, stream, frames>>
    /\ UNCHANGED loopVars

ScriptSearchSubtask ==
    /\ pc = "Searching"
    /\ HasKey(plan, "subtasks")
    /\ i <= Len(plan.subtasks)
    /\ LET subtask == plan.subtasks[i]
       IN  IF ~HasKey(subtask, "search_query")
           THEN /\ Fails(SubscriptError(subtask))
                /\ UNCHANGED <<i, searches, search_results, frames>>
           ELSE \E out \in SearchOutcomes :
                  LET r == ScriptSearchIteration(subtask, subtask.search_query, out)
                  IN  /\ searches' = Append(searches, SearchCall(subtask.search_query, out))
                      /\ search_results' = search_results \o r.items
                      /\ frames' = Append(frames, r.frame)
                      /\ i' = i + 1
                      /\ UNCHANGED <<pc, exc, failedIn>>
    /\ UNCHANGED <<query, plan, attempts, slept, search_summary, stream>>
    /\ UNCHANGED loopVars

\* f"- {result['title']}: {result['content']}"
ScriptResultLine(result) == "- " \o result.title \o ": " \o result.content

\* the text of one item of search_results in the script's summary
ScriptSummaryItem(item) ==
    "Subtask: " \o item.subtask \o "\nSearch Query: " \o item.search_query
        \o "\nResults:\n"
        \o Join("\n", [k \in 1..Len(item.results) |-> ScriptResultLine(item.results[k])])

ScriptBuildReportPrompt ==
    /\ pc = "Searching"
    /\ HasKey(plan, "subtasks")
    /\ i > Len(plan.subtasks)
    /\ search_summary' =
         Join("\n", [k \in 1..Len(search_results) |-> ScriptSummaryItem(search_results[k])])
    /\ pc' = "Synthesizing"
    /\ UNCHANGED <<query, exc, failedIn, plan, attempts, slept, i, searches,
                   search_results, stream, frames>>
    /\ UNCHANGED loopVars

\* the only except clause around the script's report stream
ScriptReportExcept(e) ==
    IF IsInstance(e, "ResourceExhausted") THEN <<QuotaFrame(e)>> ELSE <<>>

ScriptStreamReport ==
    /\ pc = "Synthesizing"
    /\ \E ev \in StreamEvents :
         /\ ev.kind = "chunk" => Len(Produced(stream)) < MaxChunks
         /\ stream' = Append(stream, ev)
         /\ IF ev.kind = "chunk"
            THEN /\ frames' = Append(frames, ChunkFrame(ev.text))
                 /\ UNCHANGED <<pc, exc, failedIn>>
            ELSE IF ev.kind = "end"
            THEN /\ pc' = "Done"
                 /\ UNCHANGED <<exc, failedIn, frames>>
            ELSE IF ScriptReportExcept(StreamRaises(ev)) # <<>>
            THEN /\ frames' = frames \o ScriptReportExcept(StreamRaises(ev))
                 /\ pc' = "Done"
                 /\ UNCHANGED <<exc, failedIn>>
            ELSE /\ Fails(StreamRaises(ev))
                 /\ UNCHANGED frames
    /\ UNCHANGED <<query, plan, attempts, slept, i, searches, search_results,
                   search_summary>>
    /\ UNCHANGED loopVars

NextRetry ==
    \/ ScriptPlanAttempt
    \/ ScriptSearchingRaises
    \/ ScriptSearchSubtask
    \/ ScriptBuildReportPrompt
    \/ ScriptStreamReport

SpecRetry == InitRetry /\ [][NextRetry]_vars

\* the script started on one topic (the topic is only copied into the
\* default plan and the printed lines; no branch of the script reads it)
InitRetryTopic == InitRetry /\ query = "X"

\* The script's run when every outbound call returns or fails: the model
\* call of an attempt, the wait between attempts, each search call and each
\* step of the report stream are blocking calls of one thread, so the run
\* takes its next step whenever it has one.
SpecRetryFair == InitRetryTopic /\ [][NextRetry]_vars /\ WF_vars(NextRetry)


----------------------------------------------------------------------------
(* Properties of the server run (Spec) *)

Last(seq) == seq[Len(seq)]

\* the plan invariant of the data model: at least one sub-task, each with a
\* non-empty search_query
ValidPlan(p) ==
    /\ HasKey(p, "subtasks")
    /\ Len(p.subtasks) >= 1
    /\ \A k \in 1..Len(p.subtasks) :
         /\ HasKey(p.subtasks[k], "search_query")
         /\ p.subtasks[k].search_query # ""

\* every sub-task of the plan is an object with a description and a
\* search_query (a SubTask of the data model; the query may be empty)
HasSubTasks(p) ==
    /\ HasKey(p, "subtasks")
    /\ \A k \in 1..Len(p.subtasks) :
         HasKey(p.subtasks[k], "subtask") /\ HasKey(p.subtasks[k], "search_query")

IsSearchFrame(f) == f.event \in {"SearchResults", "ErrorSearching"}
IsReportFrame(f) == f.event \in {"ReportChunk", "QuotaExceeded", "APIError"}

SearchFrames == SelectSeq(frames, IsSearchFrame)
ChunkFrames == SelectSeq(frames, LAMBDA f : f.event = "ReportChunk")
Events(fs) == [k \in 1..Len(fs) |-> fs[k].event]

\* the run has reached the Synthesizing stage (and may have ended in it)
ReachedSynthesizing ==
    \/ pc \in {"Synthesizing", "Done"}
    \/ pc = "Failed" /\ failedIn = "Synthesizing"

\* C1: whenever generate_plan has returned a plan (the Searching stage is
\* about to read it, or has), the plan has at least one sub-task and every
\* sub-task has a non-empty search_query.
\* Stated as the claim states it; the code returns what json.loads parsed
\* without looking at it.
C1_PlanValidAfterGeneration == plan # Unbound => ValidPlan(plan)

\* the last planning response was readable text that is not a JSON document
LastResponseNotJSON ==
    /\ attempts # <<>>
    /\ Last(attempts).raised = "None"
    /\ ~Last(attempts).value.blocked
    /\ ~HasKey(Last(attempts).value.text, "json")

C3_OneSearchEventPerSubtask ==
    (plan # Unbound /\ HasSubTasks(plan)) =>
        /\ ~(pc = "Failed" /\ failedIn = "Searching")
        /\ pc = "Searching" => Len(SearchFrames) = i - 1 /\ i <= Len(plan.subtasks) + 1
        /\ ReachedSynthesizing => Len(SearchFrames) = Len(plan.subtasks)
        /\ Len(searches) = Len(SearchFrames)
        /\ \A k \in 1..Len(SearchFrames) :
             /\ SearchFrames[k].search_query = plan.subtasks[k].search_query
             /\ searches[k].query = plan.subtasks[k].search_query
             /\ SearchFrames[k].event = "SearchResults"
                   <=> (searches[k].out.raised = "None" /\ HasKey(searches[k].out.value, "results"))

C3_Witness ==
    /\ pc = "Synthesizing"
    /\ Len(plan.subtasks) = 2
    /\ plan.subtasks[1].search_query # plan.subtasks[2].search_query
    /\ searches[1].out.raised = "Exception"
    /\ searches[2].out.raised = "None"
    /\ Events(frames) = <<"Planning", "ErrorSearching", "SearchResults">>

StageRank(f) ==
    IF f.event = "Planning" THEN 1 ELSE IF IsSearchFrame(f) THEN 2 ELSE 3

\* the end-to-end scenario: two sub-tasks, search 1 returns 3 results,
\* search 2 fails, the stream yields 4 chunks and ends
Scenario ==
    /\ plan # Unbound /\ HasSubTasks(plan) /\ Len(plan.subtasks) = 2
    /\ Len(searches) = 2
    /\ searches[1].out.raised = "None" /\ HasKey(searches[1].out.value, "results")
    /\ Len(searches[1].out.value.results) = 3
    /\ searches[2].out.raised = "Exception"
    /\ Len(stream) = 5
    /\ \A k \in 1..4 : stream[k].kind = "chunk"
    /\ stream[5].kind = "end"

\* C4: frames are emitted in stage order: the plan frame first (and only
\* once), then the search frames in sub-task order, then the report frames
\* in generation order; in the end-to-end scenario the frames are
\* PlanReady, SearchCompleted(1), SearchFailed(2), ReportChunk x4 and the
\* run ends normally.
C4_StageOrder ==
    /\ frames # <<>> => frames[1].event = "Planning"
    /\ \A j \in 1..Len(frames) : \A k \in 1..Len(frames) :
         j < k => /\ StageRank(frames[j]) <= StageRank(frames[k])
                  /\ frames[k].event # "Planning"
    /\ \A k \in 1..Len(SearchFrames) :
         /\ frames[k + 1] = SearchFrames[k]
         /\ SearchFrames[k].search_query = plan.subtasks[k].search_query
    /\ [k \in 1..Len(ChunkFrames) |-> ChunkFrames[k].text]
          = [k \in 1..Len(Produced(stream)) |-> Produced(stream)[k].text]
    /\ Scenario =>
         /\ Events(frames) = <<"Planning", "SearchResults", "ErrorSearching",
                               "ReportChunk", "ReportChunk", "ReportChunk", "ReportChunk">>
         /\ frames[2].search_query = plan.subtasks[1].search_query
         /\ Len(frames[2].results) = 3
         /\ frames[3].search_query = plan.subtasks[2].search_query
         /\ pc = "Done" /\ exc = "None"

C4_Witness ==
    /\ Scenario
    /\ plan.subtasks[1].search_query # plan.subtasks[2].search_query
    /\ stream[1].text # stream[2].text
    /\ pc = "Done"

\* the search for sub-task k failed: the call raised, or what it returned
\* could not be read
SearchFailed(k) ==
    searches[k].out.raised # "None" \/ ~HasKey(searches[k].out.value, "results")

\* C5: when Synthesizing starts there is exactly one outcome per sub-task,
\* in plan order; the outcome of a failed search is present with an empty
\* result sequence and the prompt renders it as "No results found.".
C5_OutcomePerSubtask ==
    ReachedSynthesizing =>
        /\ Len(search_results) = Len(plan.subtasks)
        /\ \A k \in 1..Len(search_results) :
             /\ search_results[k].search_query = plan.subtasks[k].search_query
             /\ search_results[k].subtask = plan.subtasks[k].subtask
             /\ SearchFailed(k) =>
                  /\ search_results[k].results = <<>>
                  /\ SummaryItems(search_results)[k] =
                        "Subtask: " \o plan.subtasks[k].subtask
                           \o "\nSearch Query: " \o plan.subtasks[k].search_query
                           \o "\nResults:\nNo results found."
             /\ ~SearchFailed(k) =>
                  search_results[k].results = searches[k].out.value.results
        /\ search_summary = Join("\n", SummaryItems(search_results))

C5_Witness ==
    /\ pc = "Synthesizing"
    /\ Len(plan.subtasks) = 2
    /\ SearchFailed(1) /\ ~SearchFailed(2)
    /\ search_results[2].results = <<R1, R2, R3>>
    /\ search_summary =
         "Subtask: s1\nSearch Query: q1\nResults:\nNo results found.\n"
            \o "Subtask: s2\nSearch Query: q2\nResults:\n"
            \o "- t1: c1 [URL: u1]\n- t2: c2 [URL: Not Available]\n- t3: c3 [URL: u3]"


\* the planning call number k raised resource exhaustion
Exhausted(k) == attempts[k].raised = "ResourceExhausted"

\* the planning call number k returned a readable JSON document
ReturnedJSON(k) ==
    /\ attempts[k].raised = "None"
    /\ ~attempts[k].value.blocked
    /\ HasKey(attempts[k].value.text, "json")

\* lines of the pipeline among the printed lines: plan, search and report
PipelineFrames ==
    SelectSeq(frames, LAMBDA f : f.event = "Planning" \/ IsSearchFrame(f) \/ IsReportFrame(f))

\* C6: resource exhaustion on the 1st and 2nd planning attempts and success
\* on the 3rd: generate_plan returns the plan of the 3rd call after exactly
\* 3 model calls and 2 delays of 20 time units (40 in total), and the run
\* continues to Searching.
C6_SucceedsOnThirdAttempt ==
    /\ (Len(attempts) = 2 /\ Exhausted(1) /\ Exhausted(2)) =>
          pc = "Planning" /\ exc = "None" /\ slept = 40 /\ plan = Unbound
    /\ (Len(attempts) >= 3 /\ Exhausted(1) /\ Exhausted(2) /\ ReturnedJSON(3)) =>
          /\ Len(attempts) = 3
          /\ slept = 40
          /\ plan = attempts[3].value.text.json
          /\ pc # "Planning" /\ failedIn # "Planning"
          /\ PipelineFrames # <<>>
          /\ PipelineFrames[1] = [event |-> "Planning", plan |-> attempts[3].value.text.json]

C6_Witness ==
    /\ Len(attempts) = 3 /\ Exhausted(1) /\ Exhausted(2) /\ ReturnedJSON(3)
    /\ ValidPlan(plan)
    /\ pc = "Searching"

\* C7: resource exhaustion on every planning attempt: exactly 3 attempts
\* are made, never a 4th, then the error surfaces; the run ends in Failed
\* and no plan, search or report frame is emitted.
C7_FailsAfterThreeAttempts ==
    /\ Len(attempts) <= 3
    /\ (\A k \in 1..Len(attempts) : Exhausted(k)) =>
          /\ Len(attempts) <= 3
          /\ Len(attempts) < 3 => pc = "Planning" /\ exc = "None"
          /\ Len(attempts) = 3 =>
                pc = "Failed" /\ failedIn = "Planning" /\ exc = "RetryError"
          /\ PipelineFrames = <<>>
          /\ plan = Unbound

C7_Witness ==
    /\ Len(attempts) = 3
    /\ \A k \in 1..3 : Exhausted(k)
    /\ pc = "Failed"
    /\ slept = 40

\* the planning call number k failed with something else than resource
\* exhaustion
OtherFailure(k) == attempts[k].raised \notin {"None", "ResourceExhausted"}

\* C8: a planning model-call failure that is not resource exhaustion is
\* not retried: the failing call is the last call, no delay follows it, no
\* fallback plan is substituted, the exception reaches the caller and the
\* run ends without a frame.
C8_OtherFailureNotRetried ==
    \A k \in 1..Len(attempts) :
        OtherFailure(k) =>
            /\ k = Len(attempts)
            /\ \A j \in 1..(k - 1) : Exhausted(j)
            /\ slept = 20 * (k - 1)
            /\ pc = "Failed" /\ failedIn = "Planning"
            /\ exc = attempts[k].raised
            /\ plan = Unbound
            /\ PipelineFrames = <<>>

C8_Witness ==
    /\ Len(attempts) = 1
    /\ attempts[1].raised = "GoogleAPIError"
    /\ pc = "Failed"
    /\ slept = 0

\* the report stream raised resource exhaustion at its step k
QuotaAt(k) == stream[k].kind = "raise" /\ stream[k].exc = "ResourceExhausted"

\* the report stream failed at its step k with something else
OtherStreamFailureAt(k) ==
    \/ stream[k].kind = "raise" /\ stream[k].exc # "ResourceExhausted"
    \/ stream[k].kind = "blocked_chunk"

\* C9: resource exhaustion while the report streams, before the first
\* chunk or after k chunks: the generator does not raise, it emits exactly
\* one "Quota exceeded" frame, which is the last frame, after the chunks
\* already streamed.
C9_QuotaFrameIsTerminal ==
    /\ \A k \in 1..Len(stream) :
         QuotaAt(k) =>
            /\ k = Len(stream)
            /\ pc = "Done" /\ exc = "None"
            /\ Last(frames).event = "QuotaExceeded"
            /\ Len(ChunkFrames) = k - 1
            /\ Len(SelectSeq(frames, LAMBDA f : f.event = "QuotaExceeded")) = 1
            /\ Len(frames) = 1 + Len(SearchFrames) + (k - 1) + 1
    /\ \A k \in 1..Len(frames) :
         frames[k].event = "QuotaExceeded" =>
            k = Len(frames) /\ pc = "Done" /\ QuotaAt(Len(stream))

C9_Witness ==
    /\ Len(stream) = 3 /\ QuotaAt(3)
    /\ Len(ChunkFrames) = 2
    /\ Last(frames).event = "QuotaExceeded"

C9_WitnessBeforeFirstChunk ==
    /\ Len(stream) = 1 /\ QuotaAt(1)
    /\ ChunkFrames = <<>>
    /\ Last(frames).event = "QuotaExceeded"

\* C10: any other failure while the report streams, whatever its type,
\* yields one terminal "error in report generation" frame as the last
\* frame and does not leave the generator as an exception.
\* Stated as the claim states it, for the runs whose plan satisfies the
\* plan invariant; the code catches GoogleAPIError only.
C10_OtherFailureYieldsTerminalFrame ==
    \A k \in 1..Len(stream) :
        (ValidPlan(plan) /\ OtherStreamFailureAt(k)) =>
            /\ k = Len(stream)
            /\ pc = "Done" /\ exc = "None"
            /\ Last(frames).event = "APIError"

----------------------------------------------------------------------------
(* Delivery, stages and the plan of the run (Spec) *)

\* the sequence new is the sequence old with elements appended
Extends(old, new) == Len(new) >= Len(old) /\ SubSeq(new, 1, Len(old)) = old

\* the report stream failed at its last step (the failure is handled by a
\* terminal frame, or leaves the generator)
FailedWhileSynthesizing ==
    /\ stream # <<>>
    /\ Last(stream).kind \in {"raise", "blocked_chunk"}

\* C11: the sequence of frames delivered to the client only grows by
\* appending; whenever a run fails during Synthesizing, the plan frame and
\* one search frame per sub-task have been delivered and the report chunks
\* streamed before the failure remain delivered, in their order.
C11_FramesOnlyGrow ==
    /\ [][Extends(frames, frames')]_vars
    /\ [](FailedWhileSynthesizing =>
            /\ pc \in {"Done", "Failed"} /\ (pc = "Failed" => failedIn = "Synthesizing")
            /\ frames[1] = PlanFrame(plan)
            /\ Len(SearchFrames) = Len(plan.subtasks)
            /\ \A k \in 1..Len(SearchFrames) : frames[1 + k] = SearchFrames[k]
            /\ Len(ChunkFrames) = Len(stream) - 1
            /\ \A k \in 1..(Len(stream) - 1) :
                 frames[1 + Len(SearchFrames) + k] = ChunkFrame(stream[k].text))

C11_Witness ==
    /\ pc = "Failed" /\ failedIn = "Synthesizing"
    /\ Len(plan.subtasks) = 2
    /\ Len(stream) = 3
    /\ Events(frames) = <<"Planning", "SearchResults", "ErrorSearching",
                          "ReportChunk", "ReportChunk">>

\* C12 (as stated): Failed is entered only from Planning or from
\* Synthesizing; no run aborts with an error while in the Searching stage,
\* for any plan that generate_plan can return.
\* Stated for the plans that satisfy the plan invariant (at least one
\* sub-task, every search_query present and non-empty); the loop also
\* reads subtask["subtask"], in the try block and again in the handler.
C12_NoAbortWhileSearching ==
    (pc = "Failed" /\ (plan = Unbound \/ ValidPlan(plan))) =>
        failedIn \in {"Planning", "Synthesizing"}

\* the planning model returned a response that generate_plan cannot parse:
\* a blocked response, or text that is not a JSON document
FallbackCase ==
    /\ attempts # <<>>
    /\ Last(attempts).raised = "None"
    /\ Last(attempts).value.blocked \/ ~HasKey(Last(attempts).value.text, "json")

\* C13: the plan generator is invoked once; whenever it settles on a plan
\* (real or fallback) exactly one plan frame carrying that plan is emitted,
\* first, and the run proceeds to Searching over the sub-tasks of that same
\* plan; substituting the fallback plan never moves the run to Failed.
C13_PlanReadyOnce ==
    /\ Len(attempts) <= 1
    /\ pc # "Planning" => Len(attempts) = 1
    /\ plan = Unbound => (pc = "Planning" \/ (pc = "Failed" /\ failedIn = "Planning"))
    /\ plan # Unbound =>
          /\ pc # "Planning" /\ failedIn # "Planning"
          /\ plan = generate_plan(query, attempts[1]).value
          /\ frames[1] = PlanFrame(plan)
          /\ Len(SelectSeq(frames, LAMBDA f : f.event = "Planning")) = 1
          /\ \A k \in 1..Len(searches) :
                searches[k].query = plan.subtasks[k].search_query
    /\ FallbackCase =>
          /\ plan = DefaultPlan(query)
          /\ pc = "Failed" => failedIn = "Synthesizing"

C13_Witness ==
    /\ FallbackCase /\ Last(attempts).value.blocked
    /\ pc = "Synthesizing"
    /\ Len(searches) = 2
    /\ searches[2].query = query \o " overview"

----------------------------------------------------------------------------
(* Order of the outbound calls and of the frames (Spec) *)

\* C19: within one run the search provider is called once per sub-task, in
\* plan order, repeated queries included, and strictly sequentially: the
\* call for sub-task k+1 is issued only after the event for sub-task k has
\* been emitted, after the planning call and before the report stream is
\* opened, so no two outbound calls of the run overlap.
C19_SearchCallsSequential ==
    /\ []((plan # Unbound /\ HasSubTasks(plan)) =>
            /\ Len(searches) = Len(SearchFrames)
            /\ Len(searches) <= Len(plan.subtasks)
            /\ pc = "Searching" => Len(searches) = i - 1
            /\ ReachedSynthesizing => Len(searches) = Len(plan.subtasks)
            /\ \A k \in 1..Len(searches) :
                  /\ searches[k].query = plan.subtasks[k].search_query
                  /\ SearchFrames[k].search_query = searches[k].query)
    /\ [](searches # <<>> => Len(attempts) = 1 /\ plan # Unbound)
    /\ [](stream # <<>> => Len(searches) = Len(plan.subtasks))
    /\ [][searches' # searches =>
            /\ searches' = Append(searches, Last(searches'))
            /\ Len(SearchFrames) = Len(searches)
            /\ stream = <<>> /\ stream' = <<>>
            /\ attempts' = attempts]_vars

C19_Witness ==
    /\ pc = "Synthesizing"
    /\ Len(plan.subtasks) = 2
    /\ plan.subtasks[1].search_query = plan.subtasks[2].search_query
    /\ Len(searches) = 2
    /\ searches[1].query = searches[2].query
    /\ searches[1].out # searches[2].out
    /\ Len(SearchFrames) = 2

\* C20: report delivery is incremental: the k-th chunk is emitted as a
\* frame before the (k+1)-th chunk is requested from the stream; no state
\* of the run holds a chunk that has been produced and not emitted.
C20_ChunksEmittedOneByOne ==
    /\ [](Len(ChunkFrames) = Len(Produced(stream)))
    /\ [][stream' # stream =>
            /\ stream' = Append(stream, Last(stream'))
            /\ Len(ChunkFrames) = Len(Produced(stream))
            /\ Last(stream').kind = "chunk" =>
                  frames' = Append(frames, ChunkFrame(Last(stream').text))]_vars

C20_Witness ==
    /\ pc = "Synthesizing"
    /\ Len(Produced(stream)) = 3
    /\ Len(ChunkFrames) = 3
    /\ Last(frames) = ChunkFrame(Last(stream).text)

----------------------------------------------------------------------------
(* The frames as text.  A str is a sequence of tokens: "\n" is a line      *)
(* break, the markers the client looks for ("data: ", "Planning:",         *)
(* "Search Results for", "Quota exceeded", "API error") and " " are tokens *)
(* of their own, every other token is a piece of text without a line       *)
(* break.                                                                  *)

NL == "\n"

RECURSIVE Flatten(_)
\* the concatenation of a sequence of sequences
Flatten(seqs) == IF seqs = <<>> THEN <<>> ELSE Head(seqs) \o Flatten(Tail(seqs))

\* "\n".join(lines), as tokens
LinesText(lines) ==
    [k \in 1..(2 * Len(lines) - 1) |-> IF k % 2 = 1 THEN lines[(k + 1) \div 2] ELSE NL]

\* json.dumps(..., indent=2): the lines of a nested value, one level deeper
Indent(lines) == [k \in 1..Len(lines) |-> "  " \o lines[k]]

\* json.dumps: the item separator "," after every item but the last
WithCommas(items) ==
    [k \in 1..Len(items) |->
        IF k < Len(items)
        THEN [j \in 1..Len(items[k]) |->
                 IF j = Len(items[k]) THEN items[k][j] \o "," ELSE items[k][j]]
        ELSE items[k]]

\* json.dumps: "key": value
Member(key, valueLines) ==
    [j \in 1..Len(valueLines) |->
        IF j = 1 THEN "\"" \o key \o "\": " \o valueLines[1] ELSE valueLines[j]]

\* json.dumps(d, indent=2) of a dict, given the lines of its members
ObjectLines(members) ==
    IF members = <<>> THEN <<"{}">>
    ELSE <<"{">> \o Indent(Flatten(WithCommas(members))) \o <<"}">>

\* json.dumps(l, indent=2) of a list, given the lines of its items
ArrayLines(items) ==
    IF items = <<>> THEN <<"[]">>
    ELSE <<"[">> \o Indent(Flatten(WithCommas(items))) \o <<"]">>

\* json.dumps(s) of a str without characters to escape
StringLines(str) == << "\"" \o str \o "\"" >>

\* the members of a dict of strs, in the order `keys` (the order of the
\* document the dict was parsed from)
StringMembers(d, keys) ==
    LET ks == SelectSeq(keys, LAMBDA k : HasKey(d, k))
    IN  [j \in 1..Len(ks) |-> Member(ks[j], StringLines(d[ks[j]]))]

\* json.dumps(plan, indent=2)
json_dumps_plan(p) ==
    IF p = <<>> THEN <<"[]">>
    ELSE LinesText(ObjectLines(
            (IF HasKey(p, "plan") THEN << Member("plan", StringLines(p.plan)) >> ELSE <<>>)
            \o (IF HasKey(p, "subtasks")
                THEN << Member("subtasks", ArrayLines(
                          [k \in 1..Len(p.subtasks) |->
                              ObjectLines(StringMembers(p.subtasks[k],
                                                        <<"subtask", "search_query">>))])) >>
                ELSE <<>>)))

\* json.dumps(results["results"], indent=2)
json_dumps_results(rs) ==
    LinesText(ArrayLines([k \in 1..Len(rs) |->
                             ObjectLines(StringMembers(rs[k], <<"title", "url", "content">>))]))

\* the text of a frame between "data: " and the closing "\n\n"
Text(f) ==
    CASE f.event = "Planning" -> <<"Planning:", " ">> \o json_dumps_plan(f.plan)
      [] f.event = "SearchResults" ->
            <<"Search Results for", " '" \o f.search_query \o "': ">>
                \o json_dumps_results(f.results)
      [] f.event = "ErrorSearching" ->
            <<"Error searching '" \o f.search_query \o "': " \o f.error>>
      [] f.event = "ReportChunk" -> f.text
      [] f.event = "QuotaExceeded" ->
            <<"Quota exceeded", " during report generation: " \o f.error>>
      [] f.event = "APIError" ->
            <<"API error", " in report generation: " \o f.error>>

\* the str a yield hands to StreamingResponse: f"data: {...}\n\n"
WireFrame(f) == <<"data: ">> \o Text(f) \o <<NL, NL>>

\* the body of the response after the frames fs
Wire(fs) == Flatten([k \in 1..Len(fs) |-> WireFrame(fs[k])])

----------------------------------------------------------------------------
(* The event-stream client of src/frontend.py:                             *)
(* sseclient.SSEClient(response).events()                                  *)

\* position of the first element of seq that equals sep, or Len(seq) + 1
First(seq, sep) ==
    IF \E k \in 1..Len(seq) : seq[k] = sep
    THEN CHOOSE k \in 1..Len(seq) : seq[k] = sep /\ \A j \in 1..(k - 1) : seq[j] # sep
    ELSE Len(seq) + 1

RECURSIVE SplitSeq(_, _)
\* the pieces of seq between the elements that equal sep; a separator at
\* the end closes the last piece
SplitSeq(seq, sep) ==
    IF seq = <<>> THEN <<>>
    ELSE LET k == First(seq, sep)
         IN  << SubSeq(seq, 1, k - 1) >> \o SplitSeq(SubSeq(seq, k + 1, Len(seq)), sep)

\* str.splitlines(): the lines of a text
SplitLines(text) == SplitSeq(text, NL)

\* the blocks the client reads: the lines up to each blank line
Blocks(text) ==
    SelectSeq(SplitSeq(SplitLines(text), <<>>), LAMBDA block : block # <<>>)

\* the lines of a block that carry the field "data"; a line with another
\* field name, or without one, is ignored
DataLines(block) == SelectSeq(block, LAMBDA line : line[1] = "data: ")

\* the event the client dispatches for a block: its data is the values of
\* the data lines joined by line breaks; a block without a data line
\* dispatches nothing
BlockEvents(block) ==
    LET lines == DataLines(block)
        values == [k \in 1..Len(lines) |-> Tail(lines[k])]
    IN  IF lines = <<>> THEN <<>>
        ELSE << Flatten([k \in 1..Len(values) |->
                            IF k < Len(values) THEN Append(values[k], NL) ELSE values[k]]) >>

\* event.data of the events of client.events(), for a response body
ClientEvents(text) ==
    LET blocks == Blocks(text)
    IN  Flatten([k \in 1..Len(blocks) |-> BlockEvents(blocks[k])])

----------------------------------------------------------------------------
(* SpecWire: the run of stream_research with report chunks that span       *)
(* lines, for the claims about what the client reads.  The planning model  *)
(* answers with a plan of one or two well-formed sub-tasks or with text    *)
(* that is not JSON.                                                       *)

WireChunkTexts ==
    { <<"a">>,
      <<"b", NL, "c">>,
      <<"x", NL, NL, "data: ", "y">> }

WireStreamEvents ==
    { [kind |-> "chunk", text |-> t] : t \in WireChunkTexts }
        \cup { ev \in StreamEvents : ev.kind # "chunk" }

WirePlanValues ==
    { [plan |-> "p", subtasks |-> << [subtask |-> "s1", search_query |-> "q1"] >>],
      [plan |-> "p", subtasks |-> << [subtask |-> "s1", search_query |-> "q1"],
                                     [subtask |-> "s2", search_query |-> "q2"] >>] }

WireModelCallOutcomes ==
    { Ok([blocked |-> FALSE, text |-> [json |-> v]]) : v \in WirePlanValues }
        \cup { Ok([blocked |-> FALSE, text |-> [garbage |-> "Here is the plan"]]) }

WirePlanning == Planning /\ Last(attempts') \in WireModelCallOutcomes

WireStreamReport == StreamReportOf(WireStreamEvents)

NextWire ==
    \/ WirePlanning
    \/ SearchSubtask
    \/ BuildReportPrompt
    \/ WireStreamReport

SpecWire == Init /\ [][NextWire]_vars

----------------------------------------------------------------------------
(* What the client reads (SpecWire) *)

\* the text has a line that starts with "data: "
HasDataLine(text) ==
    LET lines == SplitLines(text)
    IN  \E k \in 1..Len(lines) : lines[k] # <<>> /\ lines[k][1] = "data: "

\* C17 (as stated): each event the generator emits is delivered as exactly
\* one event frame: the client's event-stream parser dispatches as many
\* events as frames were emitted, for every payload text, line breaks and
\* blank lines included.
C17_OneEventPerFrame == Len(ClientEvents(Wire(frames))) = Len(frames)

\* the run has ended with the end of the report stream
StreamEnded == pc = "Done" /\ Last(stream).kind = "end"

\* C18 (as stated): the payloads of the report chunk frames, as the client
\* reads them, concatenated in emission order, are the report text the
\* stream produced: no chunk is lost, duplicated, reordered or altered.
C18_ChunkPayloadsAreTheReport ==
    StreamEnded =>
        Flatten(ClientEvents(Wire(ChunkFrames)))
            = Flatten([k \in 1..Len(Produced(stream)) |-> Produced(stream)[k].text])

----------------------------------------------------------------------------
(* SpecLoop: two requests served by one asyncio event loop (src/main.py).  *)
(* A run is the generator stream_research driven by StreamingResponse.     *)
(* Its outbound calls (thinking_model.generate_content, tavily.search and  *)
(* the iteration of the report stream) are plain calls, not awaited: the   *)
(* thread of the event loop stays inside the call until it returns.  The   *)
(* yields and `await asyncio.sleep(0.1)` are the suspension points, where  *)
(* the thread goes back to the loop.                                       *)

Runs == {"run1", "run2"}

\* os.getenv: the environment of the server process
Environ == [GOOGLE_GENERATIVE_AI_API_KEY |-> "g-env", TAVILY_API_KEY |-> "t-env"]

\* genai.configure(api_key=os.getenv("GOOGLE_GENERATIVE_AI_API_KEY")): the
\* key of every GenerativeModel of the process
genai_api_key == Environ.GOOGLE_GENERATIVE_AI_API_KEY

\* tavily = TavilyClient(api_key=os.getenv("TAVILY_API_KEY"))
tavily == [api_key |-> Environ.TAVILY_API_KEY]

\* the JSON body the frontend posts for request r, with the keys its user
\* entered (src/deep-research/frontend.py)
Payload(r) ==
    [query |-> "X", provider |-> "google", thinking_model |-> "gemini-1.5-flash",
     task_model |-> "gemini-1.5-flash", search_provider |-> "tavily",
     google_api_key |-> IF r = "run1" THEN "g-1" ELSE "g-2",
     tavily_api_key |-> IF r = "run1" THEN "t-1" ELSE "t-2"]

\* the fields class ResearchQuery declares
ResearchQueryFields ==
    {"query", "provider", "thinking_model", "task_model", "search_provider"}

\* query: ResearchQuery parsed from the body: keys the class does not
\* declare are dropped
ResearchQuery(body) == [f \in ResearchQueryFields \cap DOMAIN body |-> body[f]]

\* an outbound call of run r to the model, with the key it is made with
ModelCall(r) == [run |-> r, service |-> "model", api_key |-> genai_api_key]

\* an outbound call of run r to the search provider
SearchProviderCall(r) == [run |-> r, service |-> "search", api_key |-> tavily.api_key]

\* positions inside an outbound call: the run holds the thread
Held == {"plan_call", "search_call", "chunk_wait"}

\* suspension points: the task is created and not started, or the run
\* waits at a yield or in asyncio.sleep
Released == {"accepted", "plan_sleep", "search_sleep", "chunk_sleep"}

InitLoop ==
    /\ query = "X"
    /\ pc = "Planning"
    /\ exc = "None"
    /\ failedIn = "None"
    /\ plan = Unbound
    /\ attempts = <<>>
    /\ slept = 0
    /\ i = 1
    /\ searches = <<>>
    /\ search_results = <<>>
    /\ search_summary = ""
    /\ stream = <<>>
    /\ frames = <<>>
    /\ runs = [r \in Runs |->
                 [at |-> "accepted", args |-> ResearchQuery(Payload(r)), n |-> 0, k |-> 0,
                  chunks |-> 0, emitted |-> 0, connected |-> TRUE]]
    /\ loop = "idle"
    /\ calls = {}

\* the outbound call the run makes next when it is resumed
NextCall(run) ==
    IF run.at = "accepted" THEN "plan_call"
    ELSE IF run.at \in {"plan_sleep", "search_sleep"} /\ run.k < run.n THEN "search_call"
    ELSE "chunk_wait"

\* the event loop resumes run r at its suspension point; the run goes on
\* to its next outbound call and stays in it
Resume(r) ==
    /\ loop = "idle"
    /\ runs[r].at \in Released
    /\ runs[r].connected
    /\ runs' = [runs EXCEPT ![r].at = NextCall(runs[r])]
    /\ calls' = calls \cup { IF NextCall(runs[r]) = "search_call"
                             THEN SearchProviderCall(r) ELSE ModelCall(r) }
    /\ loop' = r
    /\ UNCHANGED runVars

\* thinking_model.generate_content returns: the plan frame is yielded and
\* the run sleeps; or the call raises and the run ends
PlanCallReturns(r) ==
    /\ loop = r
    /\ runs[r].at = "plan_call"
    /\ \/ \E n \in 1..MaxSubtasks :
            runs' = [runs EXCEPT ![r].at = "plan_sleep", ![r].n = n,
                                 ![r].emitted = @ + 1]
       \/ runs' = [runs EXCEPT ![r].at = "failed"]
    /\ loop' = "idle"
    /\ UNCHANGED <<calls, runVars>>

\* tavily.search returns or raises: the frame of the sub-task is yielded and
\* the run sleeps
SearchCallReturns(r) ==
    /\ loop = r
    /\ runs[r].at = "search_call"
    /\ runs' = [runs EXCEPT ![r].at = "search_sleep", ![r].k = @ + 1,
                            ![r].emitted = @ + 1]
    /\ loop' = "idle"
    /\ UNCHANGED <<calls, runVars>>

\* the report stream hands over its next chunk (its frame is yielded and the
\* run sleeps), ends, or raises (a terminal frame is yielded, or the
\* exception leaves the run)
ChunkWaitReturns(r) ==
    /\ loop = r
    /\ runs[r].at = "chunk_wait"
    /\ \/ /\ runs[r].chunks < MaxChunks
          /\ runs' = [runs EXCEPT ![r].at = "chunk_sleep", ![r].chunks = @ + 1,
                                  ![r].emitted = @ + 1]
       \/ runs' = [runs EXCEPT ![r].at = "done"]
       \/ runs' = [runs EXCEPT ![r].at = "done", ![r].emitted = @ + 1]
       \/ runs' = [runs EXCEPT ![r].at = "failed"]
    /\ loop' = "idle"
    /\ UNCHANGED <<calls, runVars>>

\* the client of run r closes the connection
Disconnect(r) ==
    /\ runs[r].connected
    /\ runs[r].at \in Held \cup Released
    /\ runs' = [runs EXCEPT ![r].connected = FALSE]
    /\ UNCHANGED <<loop, calls, runVars>>

\* StreamingResponse finds the connection closed while the run is at a
\* suspension point and cancels the generator there
Cancel(r) ==
    /\ loop = "idle"
    /\ runs[r].at \in Released
    /\ ~runs[r].connected
    /\ runs' = [runs EXCEPT ![r].at = "cancelled"]
    /\ UNCHANGED <<loop, calls, runVars>>

NextLoop ==
    \E r \in Runs :
        \/ Resume(r)
        \/ PlanCallReturns(r)
        \/ SearchCallReturns(r)
        \/ ChunkWaitReturns(r)
        \/ Disconnect(r)
        \/ Cancel(r)

SpecLoop == InitLoop /\ [][NextLoop]_vars

----------------------------------------------------------------------------
(* Credentials, disconnects and scheduling (SpecLoop) *)

\* the key request r supplies for a service
RequestKey(r, service) ==
    IF service = "search" THEN Payload(r).tavily_api_key ELSE Payload(r).google_api_key

\* C14 (as stated): every outbound model call and search call of a run is
\* made with the credential supplied in that run's own request, never
\* with another run's or a process-wide credential.
C14_CallsUseRequestCredentials ==
    \A c \in calls : c.api_key = RequestKey(c.run, c.service)

\* C15 (as stated): once the client of a run has disconnected, the run
\* issues no further search call, requests no further report chunk and
\* emits no further frame.
C15_NoWorkAfterDisconnect ==
    [][\A r \in Runs :
          ~runs[r].connected =>
             /\ runs'[r].emitted = runs[r].emitted
             /\ runs'[r].at \in Held => runs'[r].at = runs[r].at]_vars

\* C16 (as stated): while a run is inside an outbound call (the planning
\* call, a search call, or the wait for the next report chunk), the event
\* loop can give a step to every other run that is ready to go on.
C16_CallsReleaseTheLoop ==
    \A a \in Runs : \A b \in Runs \ {a} :
        (runs[a].at \in Held /\ runs[b].at \in Released /\ runs[b].connected)
            => ENABLED Resume(b)

----------------------------------------------------------------------------
(* The event loop of the client (src/frontend.py, lines 70-106), as the    *)
(* state it is in after it has consumed the events read so far.            *)

\* str.isspace for a token
IsSpace(t) == t \in {NL, " "}

RECURSIVE LStrip(_)
\* str.lstrip()
LStrip(text) == IF text # <<>> /\ IsSpace(Head(text)) THEN LStrip(Tail(text)) ELSE text

RECURSIVE RStrip(_)
\* str.rstrip()
RStrip(text) ==
    IF text # <<>> /\ IsSpace(Last(text)) THEN RStrip(SubSeq(text, 1, Len(text) - 1))
    ELSE text

\* str.strip()
Strip(text) == RStrip(LStrip(text))

\* data.startswith(marker)
StartsWith(text, marker) == text # <<>> /\ Head(text) = marker

\* data.replace(marker, "")
Replace(text, marker) == SelectSeq(text, LAMBDA t : t # marker)

\* the JSON documents of the plans the server can emit
PlanDocuments ==
    [p \in PlanValues \cup WirePlanValues \cup { DefaultPlan(q) : q \in Topics }
        |-> json_dumps_plan(p)]

\* json.loads(plan_data) on the client: the value the text is the JSON
\* document of, or JSONDecodeError
client_json_loads(text) ==
    IF \E p \in DOMAIN PlanDocuments : PlanDocuments[p] = text
    THEN Ok(CHOOSE p \in DOMAIN PlanDocuments : PlanDocuments[p] = text)
    ELSE Raise("JSONDecodeError")

\* the client before the first event (lines 70-73)
FrontendInit ==
    [plan_json |-> Unbound, results_text |-> <<>>, report_buffer |-> <<>>,
     errors |-> <<>>, warnings |-> <<>>, stopped |-> FALSE]

\* one pass of `for event in client.events()` (lines 75-101): after the
\* break nothing is consumed, an event without data is skipped
FrontendStep(st, event_data) ==
    IF st.stopped \/ event_data = <<>> THEN st
    ELSE LET data == Strip(event_data)
         IN  IF StartsWith(data, "Planning:")
             THEN LET r == client_json_loads(Strip(Replace(data, "Planning:")))
                  IN  IF r.raised = "None" THEN [st EXCEPT !.plan_json = r.value]
                      ELSE [st EXCEPT !.warnings = Append(@, data)]
             ELSE IF StartsWith(data, "Search Results for")
             THEN [st EXCEPT !.results_text = @ \o data \o <<NL, NL>>]
             ELSE IF StartsWith(data, "Quota exceeded") \/ StartsWith(data, "API error")
             THEN [st EXCEPT !.errors = Append(@, data), !.stopped = TRUE]
             ELSE [st EXCEPT !.report_buffer = Append(@, data)]

RECURSIVE Frontend(_, _)
\* the client after the events, starting in st
Frontend(st, events) ==
    IF events = <<>> THEN st
    ELSE Frontend(FrontendStep(st, Head(events)), Tail(events))

\* the client after it has read the frame f alone
AfterFrame(f) == Frontend(FrontendInit, ClientEvents(WireFrame(f)))

----------------------------------------------------------------------------
(* What the client makes of the frames (SpecWire) *)

\* C21 (as stated): frame payloads survive the transport: the payload the
\* client's event-stream parser extracts from each frame is the full text
\* the server emitted for it, multi-line text included; for the plan frame
\* it is "Planning: " followed by the complete JSON of the plan, and the
\* client's JSON parse of it yields the emitted plan.
C21_PayloadRoundTrip ==
    \A k \in 1..Len(frames) :
        /\ ClientEvents(WireFrame(frames[k])) = << Text(frames[k]) >>
        /\ frames[k].event = "Planning" =>
              AfterFrame(frames[k]).plan_json = frames[k].plan

\* the branch of the client's loop a frame of each kind belongs to
KindOf(f) ==
    CASE f.event = "Planning" -> "plan"
      [] f.event = "SearchResults" -> "search"
      [] f.event = "ErrorSearching" -> "search"
      [] f.event \in {"QuotaExceeded", "APIError"} -> "failure"
      [] f.event = "ReportChunk" -> "report"

\* the branch of the client's loop that handled what it read
BranchOf(st) ==
    IF st.stopped THEN "failure"
    ELSE IF st.report_buffer # <<>> THEN "report"
    ELSE IF st.results_text # <<>> THEN "search"
    ELSE IF st.plan_json # Unbound \/ st.warnings # <<>> THEN "plan"
    ELSE "none"

\* C22 (as stated): the client classifies every received frame as plan,
\* search result, terminal failure or report text in agreement with the
\* server's event kinds: only report chunk frames are appended to the
\* report buffer, and on a terminal failure frame the client stops
\* consuming.
C22_ClientClassifiesAsServer ==
    /\ \A k \in 1..Len(frames) :
         /\ BranchOf(AfterFrame(frames[k])) = KindOf(frames[k])
         /\ AfterFrame(frames[k]).report_buffer # <<>> => frames[k].event = "ReportChunk"
    /\ \A k \in 1..Len(frames) :
         frames[k].event \in {"QuotaExceeded", "APIError"} =>
            Frontend(FrontendInit, ClientEvents(Wire(SubSeq(frames, k, Len(frames)))))
               = AfterFrame(frames[k])

----------------------------------------------------------------------------
(* Termination of the run *)

\* the run is over: the generator has returned or an exception has left it
Terminated == pc \in {"Done", "Failed"}

\* N, the number of sub-tasks of the plan (0 while there is no plan, or for
\* a plan without sub-tasks to iterate)
SubtaskCount == IF HasKey(plan, "subtasks") THEN Len(plan.subtasks) ELSE 0

\* the work the run has done is within its bounds: at most 3 planning
\* attempts, at most N search calls, one chunk frame per chunk of the stream
WithinBounds ==
    /\ Len(attempts) <= MaxAttempts
    /\ Len(searches) <= SubtaskCount
    /\ Len(ChunkFrames) <= Len(Produced(stream))

\* C23: when every outbound call returns or fails, the run eventually
\* reaches Done or Failed; on the way it makes at most 3 planning attempts
\* and at most N search calls (N the number of sub-tasks of the plan) and
\* relays the chunks of the finite stream; once Done or Failed it emits no
\* further frame and does nothing more.
C23_RunTerminates ==
    /\ <>Terminated
    /\ [][/\ WithinBounds'
          /\ Terminated => frames' = frames /\ pc' = pc]_vars

\* the longest run: two exhausted planning attempts and a third that
\* returns a plan, a search call for each of its sub-tasks, every chunk the
\* stream may produce, then the end
C23_Witness ==
    /\ pc = "Done"
    /\ Len(attempts) = MaxAttempts
    /\ SubtaskCount = MaxSubtasks
    /\ Len(searches) = SubtaskCount
    /\ Len(ChunkFrames) = MaxChunks
    /\ Last(stream).kind = "end"

====
